---------------------------- MODULE Spec2Model ----------------------------
(***************************************************************************)
(* The Pokemon ring of src/src/main.js: the module-level collection        *)
(* `cubes`, the scene group `ringGroup`, the async function                *)
(* createPokemonRing with its sequential fetch loop, the fire-and-forget   *)
(* texture loads of setCubeTexture, the click-picking handler and the      *)
(* Refresh All handler.                                                    *)
(*                                                                         *)
(* JavaScript runs the handlers on one thread: a handler runs from the     *)
(* event that starts it to its next `await` (or its end) without           *)
(* interleaving.  Each action below is one such run.                       *)
(***************************************************************************)
EXTENDS Integers, Sequences, FiniteSets, TLC

(***************************************************************************)
(* Bounds of the model.                                                    *)
(***************************************************************************)
\* Ring size.  main.js:17 sets NUM_CUBES = 10; the model checks the same
\* loop at a reduced ring size (the code uses the value only as loop bound
\* and in the angle of a cube).
NUM_CUBES == 2
\* Number of texture loads that may be in flight at the same time.
MaxLoads == 1
\* The calls of createPokemonRing of a run, in the order they are made: the
\* one main() makes at startup, then one per Refresh All click.
Callers == <<"main", "click1", "click2">>

\* main.js:185  Math.floor(Math.random() * 1010) + 1  lies in 1..MAX_ID.
MAX_ID == 1010
\* The draws of randomId the model follows.
RandomIds == {MAX_ID}

(***************************************************************************)
(* JavaScript values.                                                      *)
(***************************************************************************)
Null == [type |-> "null"]
Undefined == [type |-> "undefined"]
Num(n) == [type |-> "number", val |-> n]
Str(s) == [type |-> "string", val |-> s]
Arr(s) == [type |-> "array", items |-> s]

\* ToBoolean, as used by `if (sprite)` and `c.pokemonData ? ... : ...`.
Truthy(v) ==
  CASE v.type = "string" -> v.val # ""
    [] v.type = "number" -> v.val # 0
    [] v.type = "object" -> TRUE
    [] v.type = "array" -> TRUE
    [] OTHER -> FALSE

\* The texts the overlay element pokemonInfoDiv is given (the e-acute of
\* the source is written e).  DefaultText is also the text of the page
\* when it loads (pokemoin_spec_basic.cy.js:11-14).
DefaultText == Str("Click on a Pokemon cube to see its info.")
RefreshingText == Str("Refreshing...")
NoDataText == Str("<div>No data available.</div>")

\* showPokemonInfo (main.js:303-318): the overlay shows "#<id> ..." of the
\* record it is given.
showPokemonInfo(data) == [type |-> "html", pokeId |-> data.id]

(***************************************************************************)
(* The remote source.  A response is what fetch() gives for one request:   *)
(* a transport error, or an HTTP response with its ok flag and its body.   *)
(***************************************************************************)
NotJson == [type |-> "invalid"]
SpriteUrl == Str("front_default.png")

\* A pokemon resource as the PokeAPI serves it: its id is the id requested,
\* its sprites.front_default a URL, or null or empty when it has no sprite.
\* Of its members the ring reads sprites.front_default and id.
PokemonJson(id, sprite) ==
  [type |-> "object", id |-> Num(id),
   sprites |-> [type |-> "object", front_default |-> sprite]]

\* A JSON object that lacks the `sprites` member.
NoSpritesJson(id) == [type |-> "object", id |-> Num(id)]

NetworkError == [net |-> "error"]
HttpResponse(ok, body) == [net |-> "response", ok |-> ok, body |-> body]

\* What the network may answer to GET POKE_API_BASE + randomId: no answer,
\* a status that is not ok, a body that is not JSON, a JSON body on which
\* data.sprites.front_default throws, or a pokemon resource.
Responses(randomId) ==
  { NetworkError,
    HttpResponse(FALSE, NotJson),
    HttpResponse(TRUE, NotJson),
    HttpResponse(TRUE, NoSpritesJson(randomId)),
    HttpResponse(TRUE, PokemonJson(randomId, Null)),
    HttpResponse(TRUE, PokemonJson(randomId, Str(""))),
    HttpResponse(TRUE, PokemonJson(randomId, SpriteUrl)) }

AllResponses == UNION { Responses(id) : id \in RandomIds }

Throw(e) == [threw |-> TRUE, error |-> e]
Return(v) == [threw |-> FALSE, value |-> v]

\* fetchRandomPokemon, main.js:184-189, on the response to its request.
fetchRandomPokemon(resp) ==
  IF resp.net = "error" THEN Throw("TypeError: Failed to fetch")
  ELSE IF ~resp.ok THEN Throw("Error: Failed to fetch Pokemon data")
  ELSE IF resp.body = NotJson THEN Throw("SyntaxError")
  ELSE Return(resp.body)

(***************************************************************************)
(* The body of the try block of createPokemonRing, main.js:243-250, for    *)
(* the outcome of the awaited fetch: what it pushes, whether it calls      *)
(* setCubeTexture, or what it throws.                                      *)
(***************************************************************************)
Pushes(data, tex) == [threw |-> FALSE, pokemonData |-> data, texture |-> tex]

\* The try block with the sprite test dropped: the record is bound and its
\* texture requested whether or not it has a sprite URL.
TryBlockBindsAlways(res) ==
  IF res.threw THEN Throw(res.error)
  ELSE LET data == res.value IN
    IF "sprites" \notin DOMAIN data
    THEN Throw("TypeError: data.sprites is undefined")
    ELSE Pushes(data, Truthy(data.sprites.front_default))

TryBlock(res) ==
  IF res.threw THEN Throw(res.error)
  ELSE LET data == res.value IN
    IF "sprites" \notin DOMAIN data
    THEN Throw("TypeError: data.sprites is undefined")
    ELSE LET sprite == data.sprites.front_default IN
      IF Truthy(sprite) THEN Pushes(data, TRUE) ELSE Pushes(Null, FALSE)

\* A catch that handles only the error fetchRandomPokemon throws itself.
CaughtOwnErrorOnly(err) == err = "Error: Failed to fetch Pokemon data"

\* catch (err), main.js:251: the clause has no condition, it catches
\* whatever the try block throws.
Caught(err) == TRUE

\* catch block, main.js:252-253.
CatchBlock == Pushes(Null, FALSE)

\* One iteration's try/catch: the slot pushed, or the error that escapes.
Iteration(res) ==
  LET t == TryBlock(res) IN
  IF ~t.threw THEN t
  ELSE IF Caught(t.error) THEN CatchBlock
  ELSE t

\* The map written with optional chaining, c.pokemonData?.id: undefined
\* for a slot without record.
ExposedIdOptional(c) ==
  IF Truthy(c.pokemonData) THEN c.pokemonData.id ELSE Undefined

\* main.js:258  cubes.map(c => c.pokemonData ? c.pokemonData.id : null)
ExposedId(c) == IF Truthy(c.pokemonData) THEN c.pokemonData.id ELSE Null
PokemonIDs(cs) == Arr([k \in 1..Len(cs) |-> ExposedId(cs[k])])

(***************************************************************************)
(* State.                                                                  *)
(***************************************************************************)
VARIABLES
  cubes,            \* main.js:19   sequence of [mesh, pokemonData]
  ringGroup,        \* main.js:28   the children of the group
  lastPokemonIDs,   \* window.lastPokemonIDs
  pokemonInfoDiv,   \* innerHTML of the overlay element
  loads,            \* meshes whose TextureLoader.load is in flight
  textured,         \* meshes whose material.map has been set
  refresh           \* the calls of createPokemonRing: where each stands

vars == <<cubes, ringGroup, lastPokemonIDs, pokemonInfoDiv, loads, textured,
          refresh>>

\* The call made by main() at startup, and the calls made by the clicks.
Startup == Callers[1]
Clicks == { Callers[k] : k \in 2..Len(Callers) }
Refreshes == {Startup} \cup Clicks
\* The place of a call in the order of the calls.
Order(r) == CHOOSE k \in 1..Len(Callers) : Callers[k] = r

\* createCube: a fresh mesh; the one made by call r for ring position i.
Mesh(r, i) == [gen |-> r, pos |-> i]

SlotMeshes(cs) == { cs[k].mesh : k \in 1..Len(cs) }

\* The slot of cubes holding the mesh: cubes.find(c => c.mesh === m).
Find(cs, m) ==
  IF m \in SlotMeshes(cs)
  THEN cs[CHOOSE k \in 1..Len(cs) :
            cs[k].mesh = m /\ \A j \in 1..(k-1) : cs[j].mesh # m]
  ELSE Undefined

\* A mesh that is detached and whose load callback has run is referenced by
\* nothing: the model forgets its material.
Collect(t, rg) == t \cap rg

\* The overlay after the window click listener has run for a ray that hits
\* the mesh m first, main.js:282-290.
ClickResult(cs, m) ==
  IF m \in SlotMeshes(cs) /\ Truthy(Find(cs, m).pokemonData)
  THEN showPokemonInfo(Find(cs, m).pokemonData)
  ELSE NoDataText

\* The meshes createPokemonRing detaches when it starts, main.js:227.
Detached(cs) == SlotMeshes(cs)

\* The callback of loader.load, main.js:214-217: whether it sets
\* mesh.material.map.  It does so whatever has become of the mesh.
AppliesTexture(cs, m) == TRUE

\* A handler that leaves the overlay as it is once the ring is rebuilt.
AfterRefreshKeeps(div) == div

\* The Refresh All handler after its await, main.js:355.
AfterRefresh(div) == DefaultText

\* A write at the last index, cubes[cubes.length - 1] = slot, in place of
\* the push.
PushOverLast(cs, slot) ==
  IF cs = << >> THEN << slot >> ELSE [cs EXCEPT ![Len(cs)] = slot]

\* cubes.push(slot), main.js:247, 249, 253.
Push(cs, slot) == Append(cs, slot)

\* A loop that stops one slot short.
LoopStopsShort(i) == i < NUM_CUBES - 1

\* The loop test i < NUM_CUBES, main.js:230, on the index after i++.
LoopContinues(i) == i < NUM_CUBES

Awaiting(r) == refresh[r].pc = "await"

\* The mesh the suspended call r holds in its local `mesh`.
LocalMesh(r) == Mesh(r, refresh[r].i)

(***************************************************************************)
(* After the module's top-level code has run: main() has initialised the   *)
(* scene and the click picking, has called createPokemonRing, which is     *)
(* suspended in its first fetch.  The overlay holds the page's text.       *)
(***************************************************************************)
Init ==
  /\ cubes = << >>
  /\ ringGroup = { Mesh(Startup, 0) }
  /\ lastPokemonIDs = Undefined
  /\ pokemonInfoDiv = DefaultText
  /\ loads = {}
  /\ textured = {}
  /\ refresh = [r \in Refreshes |->
                 IF r = Startup THEN [pc |-> "await", i |-> 0]
                 ELSE [pc |-> "idle", i |-> 0]]

(***************************************************************************)
(* A click on Refresh All, main.js:352-354 and createPokemonRing down to   *)
(* its first await, main.js:226-243.  The listener exists once main() has  *)
(* got past its own await of the startup call.                             *)
(***************************************************************************)
RefreshAll(r) ==
  /\ r \in Clicks
  /\ refresh[Startup].pc = "done"
  /\ refresh[r].pc = "idle"
  /\ \A q \in Clicks : Order(q) < Order(r) => refresh[q].pc # "idle"
  /\ pokemonInfoDiv' = RefreshingText
  /\ ringGroup' = (ringGroup \ Detached(cubes)) \cup { Mesh(r, 0) }
  /\ cubes' = << >>
  /\ refresh' = [refresh EXCEPT ![r] = [pc |-> "await", i |-> 0]]
  /\ textured' = Collect(textured, ringGroup')
  /\ UNCHANGED <<lastPokemonIDs, loads>>

(***************************************************************************)
(* The fetch awaited by call r settles, and the call runs on to its next   *)
(* await or to its end: main.js:243-255, then 231-243 or 258-259 and the   *)
(* continuation of the caller (main.js:355 for a click; main() goes on to  *)
(* register the Refresh All listener).                                     *)
(* fetch() and resp.json() are two awaits; nothing the program holds       *)
(* changes between them, so they settle here in one step.  The id drawn at *)
(* main.js:185 is read by nothing before the response, so it is drawn here.*)
(***************************************************************************)
FetchSettles(r, resp) ==
  /\ Awaiting(r)
  /\ LET it == Iteration(fetchRandomPokemon(resp))
         mesh == LocalMesh(r)
         i == refresh[r].i
     IN
     IF it.threw
     THEN /\ refresh' = [refresh EXCEPT ![r].pc = "rejected"]
          /\ UNCHANGED <<cubes, ringGroup, lastPokemonIDs, pokemonInfoDiv,
                         loads, textured>>
     ELSE /\ it.texture => Cardinality(loads) < MaxLoads
          /\ cubes' = Push(cubes, [mesh |-> mesh,
                                   pokemonData |-> it.pokemonData])
          /\ loads' = IF it.texture THEN loads \cup {mesh} ELSE loads
          /\ IF LoopContinues(i + 1)
             THEN /\ ringGroup' = ringGroup \cup { Mesh(r, i + 1) }
                  /\ refresh' = [refresh EXCEPT ![r].i = i + 1]
                  /\ UNCHANGED <<lastPokemonIDs, pokemonInfoDiv>>
             ELSE /\ lastPokemonIDs' = PokemonIDs(cubes')
                  /\ refresh' = [refresh EXCEPT ![r].pc = "done"]
                  /\ pokemonInfoDiv' = IF r \in Clicks
                                       THEN AfterRefresh(pokemonInfoDiv)
                                       ELSE pokemonInfoDiv
                  /\ UNCHANGED ringGroup
          /\ textured' = Collect(textured, ringGroup')

(***************************************************************************)
(* A texture load finishes and its callback runs, main.js:214-217.  A load *)
(* that fails runs nothing (load is given no onError callback): for the    *)
(* program it is a load that stays in flight.                              *)
(***************************************************************************)
TextureLoaded(m) ==
  /\ m \in loads
  /\ loads' = loads \ {m}
  /\ textured' = IF AppliesTexture(cubes, m)
                 THEN Collect(textured, ringGroup) \cup {m}
                 ELSE Collect(textured, ringGroup)
  /\ UNCHANGED <<cubes, ringGroup, lastPokemonIDs, pokemonInfoDiv, refresh>>

(***************************************************************************)
(* A click on the canvas, main.js:275-291.  The raycaster tests the        *)
(* children of ringGroup; the click hits one of them first, or none.       *)
(***************************************************************************)
CanvasClick(m) ==
  /\ m \in ringGroup
  /\ pokemonInfoDiv' = ClickResult(cubes, m)
  /\ textured' = Collect(textured, ringGroup)
  /\ UNCHANGED <<cubes, ringGroup, lastPokemonIDs, loads, refresh>>

ClickMisses ==
  /\ textured' = Collect(textured, ringGroup)
  /\ UNCHANGED <<cubes, ringGroup, lastPokemonIDs, pokemonInfoDiv, loads,
                 refresh>>

AllMeshes == { Mesh(r, i) : r \in Refreshes, i \in 0..(NUM_CUBES - 1) }

Next ==
  \/ \E r \in Clicks : RefreshAll(r)
  \/ \E r \in Refreshes : \E resp \in AllResponses : FetchSettles(r, resp)
  \/ \E m \in AllMeshes : TextureLoaded(m)
  \/ \E m \in AllMeshes : CanvasClick(m)
  \/ ClickMisses

Spec == Init /\ [][Next]_vars

\* "Given that every fetch eventually settles": the fetch a call awaits
\* is answered in the end.
LiveSpec ==
  /\ Init /\ [][Next]_vars
  /\ \A r \in Refreshes :
       WF_vars(\E resp \in AllResponses : FetchSettles(r, resp))

(***************************************************************************)
(* Vocabulary of the properties.                                           *)
(***************************************************************************)
Started(r) == refresh[r].pc # "idle"

\* The call made last.
Latest ==
  Callers[CHOOSE k \in 1..Len(Callers) :
            /\ Started(Callers[k])
            /\ \A j \in (k+1)..Len(Callers) : ~Started(Callers[j])]

\* No call of createPokemonRing is in progress.
Quiescent == \A r \in Refreshes : ~Awaiting(r)

\* The step in which call r runs to its end.
Completes(r) == Awaiting(r) /\ refresh'[r].pc = "done"

\* Responses for which the fetch of a slot fails: a transport error, a
\* status that is not ok, a body that is not JSON or lacks `sprites`.
FailedResponses ==
  { resp \in AllResponses :
      \/ resp.net = "error"
      \/ ~resp.ok
      \/ resp.body = NotJson
      \/ "sprites" \notin DOMAIN resp.body }

\* Responses for which the fetch succeeds with a record without sprite URL.
NoSpriteResponses ==
  { resp \in AllResponses \ FailedResponses :
      resp.body.sprites.front_default \in {Null, Str("")} }

LastSlot(cs) == cs[Len(cs)]

(***************************************************************************)
(* C1.  Whenever a call of createPokemonRing completes, the list it        *)
(* publishes in window.lastPokemonIDs has exactly NUM_CUBES entries.       *)
(* Every value the list takes is published by a completion.                *)
(***************************************************************************)
C1_ListHasNumCubes ==
  lastPokemonIDs.type = "array" => Len(lastPokemonIDs.items) = NUM_CUBES

C4_NoSpriteBindsRecord ==
  [][ \A r \in Refreshes : \A resp \in NoSpriteResponses :
        FetchSettles(r, resp) =>
          /\ refresh'[r].pc # "rejected"
          /\ LastSlot(cubes') = [mesh |-> LocalMesh(r),
                                 pokemonData |-> resp.body]
          /\ ClickResult(cubes', LocalMesh(r)) = showPokemonInfo(resp.body)
          /\ loads' = loads
          /\ ExposedId(LastSlot(cubes')) = resp.body.id ]_vars

(***************************************************************************)
(* C4, amended.  When a fetch succeeds with a record that has no sprite    *)
(* URL, the record is dropped: the slot is appended with pokemonData null, *)
(* a click on it shows "No data available.", no texture load is requested, *)
(* no error is raised and the identifier exposed for the slot is null.     *)
(***************************************************************************)
C4_NoSpriteLeavesSlotUnbound ==
  [][ \A r \in Refreshes : \A resp \in NoSpriteResponses :
        FetchSettles(r, resp) =>
          /\ refresh'[r].pc # "rejected"
          /\ cubes' = Append(cubes, [mesh |-> LocalMesh(r),
                                     pokemonData |-> Null])
          /\ ClickResult(cubes', LocalMesh(r)) = NoDataText
          /\ loads' = loads
          /\ ExposedId(LastSlot(cubes')) = Null ]_vars

C4_Witness ==
  /\ pokemonInfoDiv = NoDataText
  /\ \E k \in 1..Len(cubes) :
       /\ cubes[k].pokemonData = Null
       /\ cubes[k].mesh \notin (loads \cup textured)
  /\ lastPokemonIDs.type = "array"
  /\ Null \in { lastPokemonIDs.items[k] : k \in 1..Len(lastPokemonIDs.items) }

(***************************************************************************)
(* C5.  A click resolves three ways: on the mesh of a slot of cubes with a *)
(* record it shows that record; on the mesh of a slot without a record it  *)
(* shows "No data available."; on a mesh that is the mesh of no slot of    *)
(* cubes it is no hit: the overlay is left as it was.                      *)
(***************************************************************************)
C5_ClickThreeWay ==
  [][ \A m \in AllMeshes : CanvasClick(m) =>
        IF m \notin SlotMeshes(cubes)
        THEN pokemonInfoDiv' = pokemonInfoDiv
        ELSE IF Find(cubes, m).pokemonData # Null
        THEN pokemonInfoDiv' = showPokemonInfo(Find(cubes, m).pokemonData)
        ELSE pokemonInfoDiv' = NoDataText ]_vars

(***************************************************************************)
(* C6.  A texture load that completes sets the material of its mesh only   *)
(* if the mesh is the mesh of a slot of cubes at that moment.              *)
(***************************************************************************)
C6_NoStaleTextureWrite ==
  [][ \A m \in AllMeshes :
        (m \in loads /\ m \notin loads' /\ m \in textured')
          => m \in SlotMeshes(cubes) ]_vars

(***************************************************************************)
(* C7.  A record fetched by a call that a newer call has superseded is     *)
(* discarded: every record bound in cubes was fetched by the latest call,  *)
(* and so was every id of the list published once the calls are over.      *)
(***************************************************************************)
C7_SupersededRecordDiscarded ==
  /\ \A k \in 1..Len(cubes) :
       cubes[k].pokemonData # Null => cubes[k].mesh.gen = Latest
  /\ (Quiescent /\ lastPokemonIDs.type = "array") =>
       \A k \in 1..Len(lastPokemonIDs.items) :
         lastPokemonIDs.items[k] # Null =>
           (k <= Len(cubes) /\ cubes[k].mesh.gen = Latest)

(***************************************************************************)
(* C8.  No mesh is leaked: the meshes attached to ringGroup were all made  *)
(* by the latest call, and when no call is in progress they are exactly    *)
(* the meshes of the slots of cubes, NUM_CUBES of them, the k-th at ring   *)
(* position k.                                                             *)
(***************************************************************************)
C8_NoLeakedMesh ==
  /\ \A m \in ringGroup : m.gen = Latest
  /\ Quiescent =>
       /\ ringGroup = SlotMeshes(cubes)
       /\ Cardinality(ringGroup) = NUM_CUBES
       /\ Len(cubes) = NUM_CUBES
       /\ \A k \in 1..Len(cubes) : cubes[k].mesh.pos = k - 1

C10_SlotsInIndexOrder ==
  \A k \in 1..Len(cubes) : cubes[k].mesh.pos = k - 1

(***************************************************************************)
(* C11.  Provided every fetch settles, every call of createPokemonRing     *)
(* that has started completes; and a call completes only in the step that  *)
(* resolves its last slot, having resolved its slots one by one in index   *)
(* order (each pushed with a record or with null), and that step publishes *)
(* the identifier list.                                                    *)
(***************************************************************************)
C11_CompletesAfterAllSlots ==
  /\ [][ \A r \in Refreshes :
           /\ Completes(r) =>
                /\ refresh[r].i = NUM_CUBES - 1
                /\ Len(cubes') = Len(cubes) + 1
                /\ LastSlot(cubes').mesh = Mesh(r, NUM_CUBES - 1)
                /\ LastSlot(cubes').pokemonData.type \in {"null", "object"}
                /\ lastPokemonIDs' = PokemonIDs(cubes')
           /\ refresh'[r].i # refresh[r].i =>
                /\ refresh'[r].i = refresh[r].i + 1
                /\ Len(cubes') = Len(cubes) + 1
                /\ LastSlot(cubes').mesh = Mesh(r, refresh[r].i)
                /\ LastSlot(cubes').pokemonData.type \in {"null", "object"} ]_vars
  /\ \A r \in Refreshes : Awaiting(r) ~> (refresh[r].pc = "done")

C11_Witness ==
  /\ \A r \in Refreshes : refresh[r].pc = "done"
  /\ lastPokemonIDs.type = "array"
  /\ Len(lastPokemonIDs.items) >= NUM_CUBES

(***************************************************************************)
(* C12.  A slot is write-once: from the step that appends an entry to      *)
(* cubes until the step in which a call of createPokemonRing starts and    *)
(* discards the whole collection, the entry keeps its mesh and its         *)
(* pokemonData.  A step in which no call moves (a texture load completing, *)
(* a click on the canvas) leaves cubes as it is; a fetch completing        *)
(* appends one entry and touches none of those before it.                  *)
(***************************************************************************)
C12_SlotsWriteOnce ==
  [][ /\ refresh' = refresh => cubes' = cubes
      /\ \/ /\ \E r \in Clicks :
                 refresh[r].pc = "idle" /\ refresh'[r].pc = "await"
            /\ cubes' = << >>
         \/ /\ Len(cubes') \in {Len(cubes), Len(cubes) + 1}
            /\ \A k \in 1..Len(cubes) : cubes'[k] = cubes[k] ]_vars

C12_Witness ==
  /\ Len(cubes) > NUM_CUBES
  /\ cubes[1].pokemonData # Null
  /\ cubes[1].mesh \in textured
  /\ pokemonInfoDiv = showPokemonInfo(cubes[1].pokemonData)
  /\ Quiescent

=============================================================================
